---- MODULE Spec2Model ----
(***************************************************************************)
(* A model of cvifier/core.py: the section-format parser (load_settings),  *)
(* the contact-info extractor (extract_contact_info), the contact-block    *)
(* formatter (make_citable), the string-level special settings             *)
(* (apply_str_special_settings) and the orchestrator (main).               *)
(*                                                                         *)
(* A Python string is a sequence of one-character strings; None is the     *)
(* empty sequence <<>> and a present optional value x is <<x>>.            *)
(***************************************************************************)
EXTENDS Integers, Sequences, FiniteSets, TLC

(***************************************************************************)
(* Bounds of the model.                                                    *)
(***************************************************************************)
\* the longest settings text, in lines
MaxLines == 4

\* the most top-level nodes of a document tree
MaxNodes == 3

\* the most fields of a column of the contact block
MaxFields == 2

\* the longest rendered text, in lines
MaxRendered == 5

(***************************************************************************)
(* The state.  Each function of the module is run on its own: the          *)
(* variables of one run stay at their initial values in the others.        *)
(***************************************************************************)
VARIABLES
    \* a run of load_settings: the text, the comment marker, the step, the
    \* parsed map, the map written back as text, that text parsed again
    lsLines, lsComment, lsPc, lsResult, lsText, lsReparsed,
    \* a run of extract_contact_info: the tree before, the tree object, the
    \* step, the first call's dict and tree, the second call's dict
    ciTree0, ciTree, ciPc, ciDict1, ciTree1, ciDict2,
    \* a run of make_citable: its four arguments, the step, the result
    mcDict, mcWriter, mcLeft, mcRight, mcPc, mcResult,
    \* a run of apply_str_special_settings: the writer the text comes from,
    \* the two arguments, the step, the result
    ssWriter, ssWritten, ssSettings, ssPc, ssResult,
    \* a run of main: the kind of `content`, how `writer` is given and its
    \* name, `settingsfile`, the step, the exception that ended the run, the
    \* tree, whether the settings file was there, the map as loaded, stgs,
    \* specialsettings, the overrides the renderer got, outstr, what fout
    \* got, what main returned
    mnContent, mnWriterArg, mnWriterName, mnSettingsfile, mnPc, mnError, mnDoctree,
    mnSettingsExists, mnLoaded, mnStgs, mnSpecial, mnOverrides, mnOutstr, mnFout,
    mnReturned

varsLS == <<lsLines, lsComment, lsPc, lsResult, lsText, lsReparsed>>

varsCI == <<ciTree0, ciTree, ciPc, ciDict1, ciTree1, ciDict2>>

varsMC == <<mcDict, mcWriter, mcLeft, mcRight, mcPc, mcResult>>

varsSS == <<ssWriter, ssWritten, ssSettings, ssPc, ssResult>>

varsMN == <<mnContent, mnWriterArg, mnWriterName, mnSettingsfile, mnPc, mnError, mnDoctree,
            mnSettingsExists, mnLoaded, mnStgs, mnSpecial, mnOverrides, mnOutstr, mnFout,
            mnReturned>>

vars == <<varsLS, varsCI, varsMC, varsSS, varsMN>>

LsIdle ==
    /\ lsLines = <<>>
    /\ lsComment = <<>>
    /\ lsPc = "idle"
    /\ lsResult = <<>>
    /\ lsText = <<>>
    /\ lsReparsed = <<>>

McIdle ==
    /\ mcDict = <<>>
    /\ mcWriter = <<>>
    /\ mcLeft = <<>>
    /\ mcRight = <<>>
    /\ mcPc = "idle"
    /\ mcResult = <<>>

SsIdle ==
    /\ ssWriter = <<>>
    /\ ssWritten = <<>>
    /\ ssSettings = <<>>
    /\ ssPc = "idle"
    /\ ssResult = <<>>

MnIdle ==
    /\ mnContent = "idle"
    /\ mnWriterArg = "idle"
    /\ mnWriterName = <<>>
    /\ mnSettingsfile = <<>>
    /\ mnPc = "idle"
    /\ mnError = <<>>
    /\ mnDoctree = <<>>
    /\ mnSettingsExists = "idle"
    /\ mnLoaded = <<>>
    /\ mnStgs = <<>>
    /\ mnSpecial = <<>>
    /\ mnOverrides = <<>>
    /\ mnOutstr = <<>>
    /\ mnFout = <<>>
    /\ mnReturned = <<>>

CiIdle ==
    /\ ciTree0 = <<>>
    /\ ciTree = <<>>
    /\ ciPc = "idle"
    /\ ciDict1 = <<>>
    /\ ciTree1 = <<>>
    /\ ciDict2 = <<>>

(***************************************************************************)
(* Python string primitives, on sequences of characters.                   *)
(***************************************************************************)
None == <<>>

Some(x) == <<x>>

NL == "\n"

\* str.isspace for one character (the whitespace str.strip removes)
IsSpace(c) == c \in {" ", "\t", "\n", "\r"}

\* s[i:] for a 1-based i
Tail_from(s, i) == SubSeq(s, i, Len(s))

\* s.startswith(p) at the 1-based position i
MatchAt(s, p, i) == /\ i + Len(p) - 1 <= Len(s)
                    /\ SubSeq(s, i, i + Len(p) - 1) = p

\* p in s
Contains(s, p) == \E i \in 1..(Len(s) + 1) : MatchAt(s, p, i)

\* str.rstrip()
RECURSIVE RStrip(_)
RStrip(s) == IF s # <<>> /\ IsSpace(s[Len(s)]) THEN RStrip(SubSeq(s, 1, Len(s) - 1)) ELSE s

\* str.lstrip()
RECURSIVE LStrip(_)
LStrip(s) == IF s # <<>> /\ IsSpace(s[1]) THEN LStrip(Tail(s)) ELSE s

\* str.strip()
Strip(s) == LStrip(RStrip(s))

\* sep.join(parts), sep a string
RECURSIVE Join(_, _)
Join(parts, sep) ==
    IF parts = <<>> THEN <<>>
    ELSE IF Len(parts) = 1 THEN parts[1]
    ELSE parts[1] \o sep \o Join(Tail(parts), sep)

\* s.split(sep) for a one-character sep: always at least one part
RECURSIVE SplitFrom(_, _, _)
SplitFrom(s, sep, cur) ==
    IF s = <<>> THEN <<cur>>
    ELSE IF s[1] = sep THEN <<cur>> \o SplitFrom(Tail(s), sep, <<>>)
    ELSE SplitFrom(Tail(s), sep, Append(cur, s[1]))

Split(s, sep) == SplitFrom(s, sep, <<>>)

\* s.replace(old, new), old non-empty: leftmost non-overlapping occurrences
RECURSIVE Replace(_, _, _)
Replace(s, old, new) ==
    IF s = <<>> THEN <<>>
    ELSE IF MatchAt(s, old, 1) THEN new \o Replace(Tail_from(s, Len(old) + 1), old, new)
    ELSE <<s[1]>> \o Replace(Tail(s), old, new)

\* s.count(sub), sub non-empty: non-overlapping occurrences
RECURSIVE Count(_, _)
Count(s, sub) ==
    IF s = <<>> THEN 0
    ELSE IF MatchAt(s, sub, 1) THEN 1 + Count(Tail_from(s, Len(sub) + 1), sub)
    ELSE Count(Tail(s), sub)

\* a list comprehension with a condition: the elements of seq whose flag is
\* set, in order
RECURSIVE Filter(_, _)
Filter(seq, flags) ==
    IF seq = <<>> THEN <<>>
    ELSE (IF flags[1] THEN <<seq[1]>> ELSE <<>>) \o Filter(Tail(seq), Tail(flags))

(***************************************************************************)
(* load_settings: the section-format parser.                               *)
(***************************************************************************)
\* commentre.match(l) for commentre = (.*?)((?<!\\)<comment>): the positions
\* where the marker stands with no backslash right before it
CommentStarts(l, comment) ==
    {i \in 1..Len(l) : MatchAt(l, comment, i) /\ (i = 1 \/ l[i - 1] # "\\")}

\* does commentre match the line
CommentMatches(l, comment) == CommentStarts(l, comment) # {}

\* mtch.group(1): the text before the first unescaped marker
CommentGroup1(l, comment) ==
    LET i == CHOOSE k \in CommentStarts(l, comment) :
                 \A j \in CommentStarts(l, comment) : k <= j
    IN  SubSeq(l, 1, i - 1)

\* what l.replace(esccomment, comment) returns
UnescapeApplied(l, comment) == Replace(l, <<"\\">> \o comment, comment)

\* the statement `l.replace(esccomment, comment)`: its result is dropped and a
\* Python string is immutable, so l is what it was
Unescape(l, comment) == l

\* markerrex.match(l) for markerrex = \[(.*?)\](.*): a '[' first and a ']' after
ClosePositions(l) == {j \in 2..Len(l) : l[j] = "]"}

MarkerMatches(l) == l # <<>> /\ l[1] = "[" /\ ClosePositions(l) # {}

FirstClose(l) == CHOOSE j \in ClosePositions(l) : \A k \in ClosePositions(l) : j <= k

\* mtch.group(1): the section name, up to the first ']'
MarkerGroup1(l) == SubSeq(l, 2, FirstClose(l) - 1)

\* mtch.group(2): what follows the first ']'
MarkerGroup2(l) == Tail_from(l, FirstClose(l) + 1)

\* defaultdict(list): a missing key reads as the empty list
Lookup(seccontent, k) == IF k \in DOMAIN seccontent THEN seccontent[k] ELSE <<>>

\* seccontent[k].append(l)
AppendTo(seccontent, k, l) ==
    [x \in (DOMAIN seccontent) \cup {k} |->
        IF x = k THEN Append(Lookup(seccontent, k), l) ELSE seccontent[x]]

\* `if insection:` is false for None and for the empty name
InsectionTruthy(insection) == insection # None /\ insection[1] # <<>>

\* the state of the loop over the lines
LoadStart == [seccontent |-> <<>>, orderedsections |-> <<>>, insection |-> None,
              error |-> None]

\* one iteration of `for l in lines`
LoadStep(st, l0, comment) ==
    LET stripped == comment # None /\ CommentMatches(l0, comment[1])
        l1 == IF stripped THEN CommentGroup1(l0, comment[1]) ELSE l0
        l  == IF comment # None THEN Unescape(l1, comment[1]) ELSE l1
    IN  IF stripped /\ l1 = <<>> THEN st
        ELSE IF ~MarkerMatches(l)
             THEN IF InsectionTruthy(st.insection)
                  THEN [st EXCEPT !.seccontent = AppendTo(@, st.insection[1], l)]
                  ELSE st
        ELSE IF Strip(MarkerGroup2(l)) # <<>>
             THEN [st EXCEPT !.error = Some(l)]
        ELSE [st EXCEPT !.insection = Some(MarkerGroup1(l)),
                        !.orderedsections = Append(@, MarkerGroup1(l))]

\* the loop: the ValueError of a malformed header ends it
RECURSIVE LoadLoop(_, _, _)
LoadLoop(st, lines, comment) ==
    IF lines = <<>> \/ st.error # None THEN st
    ELSE LoadLoop(LoadStep(st, lines[1], comment), Tail(lines), comment)

\* OrderedDict(pairs): a key keeps the place of its first pair and the value
\* of its last
RECURSIVE OrderedDict(_)
OrderedDict(pairs) ==
    IF pairs = <<>> THEN <<>>
    ELSE LET init == OrderedDict(SubSeq(pairs, 1, Len(pairs) - 1))
             p    == pairs[Len(pairs)]
         IN  IF \E i \in 1..Len(init) : init[i][1] = p[1]
             THEN [i \in 1..Len(init) |-> IF init[i][1] = p[1] THEN p ELSE init[i]]
             ELSE Append(init, p)

\* load_settings(lines, comment): [error, value]; value is the ordered map as
\* a sequence of <<name, body>> pairs
LoadSettings(lines, comment) ==
    LET st == LoadLoop(LoadStart, lines, comment)
    IN  IF st.error # None
        THEN [error |-> st.error, value |-> <<>>]
        ELSE [error |-> None,
              value |-> OrderedDict([i \in 1..Len(st.orderedsections) |->
                           <<st.orderedsections[i],
                             RStrip(Join(Lookup(st.seccontent, st.orderedsections[i]),
                                         <<NL>>))>>])]

(***************************************************************************)
(* The parser's runs: parse a text, write the map back as `[name]` blocks, *)
(* parse that again.                                                       *)
(***************************************************************************)
\* the lines a settings text is made of
LineCatalog ==
    { <<>>,
      <<"a">>,
      <<"a", " ">>,
      <<"[", "s", "]">>,
      <<"[", "t", "]", " ">>,
      <<"[", "]">>,
      <<" ", "[", "s", "]">>,
      <<"[", "s", "]", "x">>,
      <<"#", "c">>,
      <<"a", " ", "#", "c">>,
      <<"a", "\\", "#", "b">> }

RECURSIVE SeqsUpTo(_, _)
SeqsUpTo(S, n) ==
    IF n = 0 THEN {<<>>}
    ELSE LET shorter == SeqsUpTo(S, n - 1)
         IN  shorter \cup {Append(q, x) : q \in {r \in shorter : Len(r) = n - 1}, x \in S}

Hash == <<"#">>

NoResult == [error |-> None, value |-> <<>>]

LsInit ==
    /\ lsLines \in SeqsUpTo(LineCatalog, MaxLines)
    /\ lsComment \in {None, Some(Hash)}
    /\ lsPc = "start"
    /\ lsResult = NoResult
    /\ lsText = <<>>
    /\ lsReparsed = NoResult

\* load_settings on the lines
LsParse ==
    /\ lsPc = "start"
    /\ lsResult' = LoadSettings(lsLines, lsComment)
    /\ lsPc' = IF lsResult'.error # None THEN "error" ELSE "parsed"
    /\ UNCHANGED <<lsLines, lsComment, lsText, lsReparsed>>
    /\ UNCHANGED <<varsCI, varsMC, varsSS, varsMN>>

\* the map written back: a `[name]` line, then the body, block after block
WriteBack(map) ==
    Join([i \in 1..Len(map) |-> <<"[">> \o map[i][1] \o <<"]", NL>> \o map[i][2]], <<NL>>)

LsWrite ==
    /\ lsPc = "parsed"
    /\ lsText' = WriteBack(lsResult.value)
    /\ lsPc' = "written"
    /\ UNCHANGED <<lsLines, lsComment, lsResult, lsReparsed>>
    /\ UNCHANGED <<varsCI, varsMC, varsSS, varsMN>>

\* load_settings on a stream of the written text: content.read().split('\n')
LsReparse ==
    /\ lsPc = "written"
    /\ lsReparsed' = LoadSettings(Split(lsText, NL), lsComment)
    /\ lsPc' = IF lsReparsed'.error # None THEN "reerror" ELSE "reparsed"
    /\ UNCHANGED <<lsLines, lsComment, lsResult, lsText>>
    /\ UNCHANGED <<varsCI, varsMC, varsSS, varsMN>>

NextSettings == LsParse \/ LsWrite \/ LsReparse

InitSettings == LsInit /\ CiIdle /\ McIdle /\ SsIdle /\ MnIdle

SpecSettings == InitSettings /\ [][NextSettings]_vars

(***************************************************************************)
(* Claims about load_settings.                                             *)
(***************************************************************************)
\* the text before the first '#' that no backslash precedes
BeforeComment(l) == IF CommentMatches(l, Hash) THEN CommentGroup1(l, Hash) ELSE l

\* the content the comment rule keeps of a line: cut at the comment, then
\* every escaped marker made a literal one
KeptContent(l) == Replace(BeforeComment(l), <<"\\", "#">>, Hash)

SecS == <<"[", "s", "]">>

\* a text of one section `[s]` whose other lines all stay as body lines
OneSectionText ==
    /\ Len(lsLines) >= 2
    /\ lsLines[1] = SecS
    /\ \A i \in 2..Len(lsLines) :
           /\ BeforeComment(lsLines[i]) # <<>>
           /\ ~MarkerMatches(KeptContent(lsLines[i]))

\* C1: with the marker '#', a line contributes the text before its first
\* unescaped '#', every '\#' in it turned back into '#'; the section body is
\* the right-trimmed join of these contents.
C1_CommentStripping ==
    (lsPc = "parsed" /\ lsComment = Some(Hash) /\ OneSectionText)
        => lsResult.value =
             << <<<<"s">>,
                  RStrip(Join([i \in 1..(Len(lsLines) - 1) |-> KeptContent(lsLines[i + 1])],
                              <<NL>>))>> >>

\* C8: the map written back as `[name]` blocks and parsed again is the same
\* ordered sequence of (name, trimmed body) pairs.
C8_RoundTrip ==
    (lsPc \in {"reparsed", "reerror"})
        => (lsReparsed.error = None /\ lsReparsed.value = lsResult.value)

\* a round trip, under the marker '#', of a section merged from a repeated
\* header into a body of several lines
C8_Witness ==
    /\ lsPc = "reparsed"
    /\ lsComment = Some(Hash)
    /\ \E i, j \in 1..Len(lsLines) :
          /\ i < j
          /\ MarkerMatches(lsLines[i])
          /\ MarkerMatches(lsLines[j])
          /\ MarkerGroup1(lsLines[i]) = MarkerGroup1(lsLines[j])
    /\ Len(lsResult.value) = 1
    /\ NL \in {lsResult.value[1][2][k] : k \in 1..Len(lsResult.value[1][2])}

\* the header lines of a text and their names
IsHeader(lines, i) == MarkerMatches(lines[i])

HeaderName(lines, i) == IF IsHeader(lines, i) THEN MarkerGroup1(lines[i]) ELSE <<>>

\* the header a line belongs to: the nearest one before it (0: none)
NearestHeader(lines, i) ==
    LET before == {h \in 1..(i - 1) : IsHeader(lines, h)}
    IN  IF before = {} THEN 0 ELSE CHOOSE h \in before : \A g \in before : g <= h

\* the distinct header names, by first appearance
FirstHeaders(lines) ==
    Filter([i \in 1..Len(lines) |-> HeaderName(lines, i)],
           [i \in 1..Len(lines) |->
               /\ IsHeader(lines, i)
               /\ \A h \in 1..(i - 1) :
                      IsHeader(lines, h) => HeaderName(lines, h) # HeaderName(lines, i)])

\* the non-header lines under a header of that name, in file order
LinesUnder(lines, name) ==
    Filter(lines,
           [i \in 1..Len(lines) |->
               /\ ~IsHeader(lines, i)
               /\ NearestHeader(lines, i) # 0
               /\ HeaderName(lines, NearestHeader(lines, i)) = name])

ExpectedMap(lines) ==
    LET names == FirstHeaders(lines)
    IN  [i \in 1..Len(names) |->
            <<names[i], RStrip(Join(LinesUnder(lines, names[i]), <<NL>>))>>]

\* C9: one key per distinct header name, by first appearance; its body is the
\* right-trimmed join of every non-header line whose nearest preceding header
\* has that name, for every name a header can carry.
C9_Accumulation ==
    (lsPc = "parsed" /\ lsComment = None) => lsResult.value = ExpectedMap(lsLines)

\* the same, set aside the headers with the empty name `[]`
C9_AccumulationNamed ==
    (lsPc = "parsed" /\ lsComment = None
        /\ \A i \in 1..Len(lsLines) : IsHeader(lsLines, i) => HeaderName(lsLines, i) # <<>>)
        => lsResult.value = ExpectedMap(lsLines)

(***************************************************************************)
(* extract_contact_info: the contact sections leave the document tree.     *)
(*                                                                         *)
(* A top-level node is [id, tagname, names, format, children]; the id      *)
(* stands for the object's identity, which is what list.remove compares    *)
(* nodes by; format is that of a raw node; a child is [tagname, text].     *)
(***************************************************************************)
UpperChars == {"A", "B", "C", "D", "E", "F", "G", "H", "I", "J", "K", "L", "M", "N",
               "O", "P", "Q", "R", "S", "T", "U", "V", "W", "X", "Y", "Z"}

\* str.lower() for one character
LowerChar(c) ==
    CASE c = "A" -> "a" [] c = "B" -> "b" [] c = "C" -> "c" [] c = "D" -> "d"
      [] c = "E" -> "e" [] c = "F" -> "f" [] c = "G" -> "g" [] c = "H" -> "h"
      [] c = "I" -> "i" [] c = "J" -> "j" [] c = "K" -> "k" [] c = "L" -> "l"
      [] c = "M" -> "m" [] c = "N" -> "n" [] c = "O" -> "o" [] c = "P" -> "p"
      [] c = "Q" -> "q" [] c = "R" -> "r" [] c = "S" -> "s" [] c = "T" -> "t"
      [] c = "U" -> "u" [] c = "V" -> "v" [] c = "W" -> "w" [] c = "X" -> "x"
      [] c = "Y" -> "y" [] c = "Z" -> "z" [] OTHER -> c

\* str.upper() for one character
UpperChar(c) ==
    IF \E u \in UpperChars : LowerChar(u) = c
    THEN CHOOSE u \in UpperChars : LowerChar(u) = c
    ELSE c

\* str.lower()
Lower(s) == [i \in 1..Len(s) |-> LowerChar(s[i])]

CONTACT_INFO_SECTIONS ==
    { <<"n", "a", "m", "e">>,
      <<"a", "d", "d", "r", "e", "s", "s">>,
      <<"p", "h", "o", "n", "e">>,
      <<"e", "m", "a", "i", "l">>,
      <<"f", "a", "x">> }

\* the inner loop without its `break`: every contact name of the node
EveryContactName(names) ==
    Filter([i \in 1..Len(names) |-> Lower(names[i])],
           [i \in 1..Len(names) |-> Lower(names[i]) \in CONTACT_INFO_SECTIONS])

\* `for n in node['names']` with its `break`: the names the loop acts on are
\* the first contact name, if there is one
NamesActedOn(names) ==
    LET all == EveryContactName(names)
    IN  IF all = <<>> THEN <<>> ELSE <<all[1]>>

\* cidict[nl] = node
DictSet(d, k, v) == [x \in (DOMAIN d) \cup {k} |-> IF x = k THEN v ELSE d[x]]

\* the body of the inner loop, once per name acted on
RECURSIVE RecordNode(_, _, _)
RecordNode(acc, node, nls) ==
    IF nls = <<>> THEN acc
    ELSE RecordNode([cidict |-> DictSet(acc.cidict, nls[1], node),
                     torem  |-> Append(acc.torem, node)],
                    node, Tail(nls))

\* the first loop: `for node in doctree`
RECURSIVE ScanTree(_, _)
ScanTree(acc, nodes) ==
    IF nodes = <<>> THEN acc
    ELSE ScanTree(IF nodes[1].tagname = "section"
                  THEN RecordNode(acc, nodes[1], NamesActedOn(nodes[1].names))
                  ELSE acc,
                  Tail(nodes))

\* list.remove(node): the first child that is the node goes
RemoveNode(children, node) ==
    LET i == CHOOSE k \in 1..Len(children) :
                 children[k] = node /\ \A j \in 1..(k - 1) : children[j] # node
    IN  SubSeq(children, 1, i - 1) \o SubSeq(children, i + 1, Len(children))

\* the second loop: `for node in torem: doctree.remove(node)`; removing a
\* node that is no longer a child raises ValueError
RECURSIVE RemoveAll(_, _)
RemoveAll(tree, torem) ==
    IF torem = <<>> THEN [error |-> None, doctree |-> tree]
    ELSE IF \A k \in 1..Len(tree) : tree[k] # torem[1]
         THEN [error |-> Some("ValueError"), doctree |-> tree]
    ELSE RemoveAll(RemoveNode(tree, torem[1]), Tail(torem))

\* extract_contact_info(doctree): [error, cidict, doctree]
ExtractContactInfo(doctree) ==
    LET acc == ScanTree([cidict |-> <<>>, torem |-> <<>>], doctree)
        rem == RemoveAll(doctree, acc.torem)
    IN  [error |-> rem.error, cidict |-> acc.cidict, doctree |-> rem.doctree]

(***************************************************************************)
(* The extractor's runs: two calls in a row on one tree.                   *)
(***************************************************************************)
NameCatalog ==
    { <<"n", "a", "m", "e">>,
      <<"P", "h", "o", "n", "e">>,
      <<"s", "k", "i", "l", "l", "s">> }

\* a node but for its identity: a section has its title and one paragraph
NodeShape(tagname, names) ==
    [tagname  |-> tagname,
     names    |-> names,
     children |-> IF tagname = "section"
                  THEN <<[tagname |-> "title", text |-> names[1]],
                         [tagname |-> "paragraph", text |-> <<"x">>]>>
                  ELSE <<[tagname |-> "#text", text |-> <<"x">>]>>]

NodeShapes ==
    {NodeShape("section", ns) : ns \in SeqsUpTo(NameCatalog, 2) \ {<<>>}}
        \cup {NodeShape("paragraph", <<>>),
              NodeShape("paragraph", << <<"n", "a", "m", "e">> >>)}

\* the tree of these shapes, each node an object of its own
TreeOf(shapes) ==
    [i \in 1..Len(shapes) |->
        [id |-> i, tagname |-> shapes[i].tagname, names |-> shapes[i].names,
         format |-> <<>>, children |-> shapes[i].children]]

CiInit ==
    /\ ciTree0 \in {TreeOf(shapes) : shapes \in SeqsUpTo(NodeShapes, MaxNodes)}
    /\ ciTree = ciTree0
    /\ ciPc = "start"
    /\ ciDict1 = <<>>
    /\ ciTree1 = <<>>
    /\ ciDict2 = <<>>

\* the first extract_contact_info(doctree)
CiFirstCall ==
    /\ ciPc = "start"
    /\ LET r == ExtractContactInfo(ciTree)
       IN  /\ ciPc' = IF r.error # None THEN "error" ELSE "once"
           /\ ciDict1' = r.cidict
           /\ ciTree' = r.doctree
           /\ ciTree1' = r.doctree
    /\ UNCHANGED <<ciTree0, ciDict2>>
    /\ UNCHANGED <<varsLS, varsMC, varsSS, varsMN>>

\* the second extract_contact_info(doctree), on the same tree object
CiSecondCall ==
    /\ ciPc = "once"
    /\ LET r == ExtractContactInfo(ciTree)
       IN  /\ ciPc' = IF r.error # None THEN "error" ELSE "twice"
           /\ ciDict2' = r.cidict
           /\ ciTree' = r.doctree
    /\ UNCHANGED <<ciTree0, ciDict1, ciTree1>>
    /\ UNCHANGED <<varsLS, varsMC, varsSS, varsMN>>

NextContact == CiFirstCall \/ CiSecondCall

InitContact == CiInit /\ LsIdle /\ McIdle /\ SsIdle /\ MnIdle

SpecContact == InitContact /\ [][NextContact]_vars

(***************************************************************************)
(* Claims about extract_contact_info.                                      *)
(***************************************************************************)
\* a top-level section one of whose names lowercases into the vocabulary
IsContactSection(node) ==
    /\ node.tagname = "section"
    /\ \E i \in 1..Len(node.names) : Lower(node.names[i]) \in CONTACT_INFO_SECTIONS

\* C6: the first call never fails and leaves the tree without its contact
\* sections, each removed once and every other node kept in place; the
\* second call returns the empty dict and leaves the tree as it was.
C6_Idempotent ==
    /\ ciPc # "error"
    /\ ciPc \in {"once", "twice"} =>
          /\ \A i \in 1..Len(ciTree1) : ~IsContactSection(ciTree1[i])
          /\ ciTree1 = Filter(ciTree0, [i \in 1..Len(ciTree0) |-> ~IsContactSection(ciTree0[i])])
    /\ ciPc = "twice" => (ciDict2 = <<>> /\ ciTree = ciTree1)

\* two calls done on a tree with two sections of one contact name and a
\* section that carries two contact names
C6_Witness ==
    /\ ciPc = "twice"
    /\ \E i, j \in 1..Len(ciTree0) :
          /\ i # j
          /\ ciTree0[i].names = ciTree0[j].names
          /\ IsContactSection(ciTree0[i])
    /\ \E i \in 1..Len(ciTree0) :
          /\ ciTree0[i].tagname = "section"
          /\ Len(EveryContactName(ciTree0[i].names)) = 2
    /\ ciDict1 # <<>>

(***************************************************************************)
(* make_citable: the two-column contact block.                             *)
(***************************************************************************)
Html == <<"h", "t", "m", "l">>

Latex == <<"l", "a", "t", "e", "x">>

DEFAULT_CITABLE_LEFT == << <<"[", "a", "d", "d", "r", "e", "s", "s", "]">> >>

DEFAULT_CITABLE_RIGHT ==
    << <<"p", "h", "o", "n", "e">>, <<"f", "a", "x">>, <<"e", "m", "a", "i", "l">> >>

\* the writers make_citable knows
CitableWriters == {Html, Latex}

\* italicize(s)
Italicize(writer_name, s) ==
    IF writer_name = Html
    THEN <<"<", "i", ">">> \o s \o <<"<", "/", "i", ">">>
    ELSE <<"\\", "t", "e", "x", "t", "i", "t", "{">> \o s \o <<"}">>

StartRow(writer_name) ==
    IF writer_name = Html THEN <<"<", "t", "r", ">", "<", "t", "d", ">">> ELSE <<>>

EndRow(writer_name) ==
    IF writer_name = Html
    THEN <<"<", "/", "t", "d", ">", "<", "/", "t", "r", ">">>
    ELSE <<"\\", "\\">>

ColSep(writer_name) ==
    IF writer_name = Html
    THEN <<"<", "/", "t", "d", ">", "<", "t", "d", ">">>
    ELSE <<"&">>

\* fi.startswith('[') and fi.endswith(']')
Bracketed(fi) == fi # <<>> /\ fi[1] = "[" /\ fi[Len(fi)] = "]"

\* the key the field is looked up by: fi[1:-1] for a bracketed field
FieldKey(fi) == IF Bracketed(fi) THEN SubSeq(fi, 2, Len(fi) - 1) ELSE fi

\* the prefix of the field's first line
FieldPrefix(writer_name, fi) ==
    IF Bracketed(fi) THEN <<>>
    ELSE Italicize(writer_name, <<UpperChar(fi[1])>> \o Tail(fi) \o <<":">>) \o <<"~">>

\* tspl after `tspl[0] = prefix + tspl[0]`
FieldLines(cistrdict, writer_name, fi) ==
    LET tspl == Split(cistrdict[FieldKey(fi)], NL)
    IN  [tspl EXCEPT ![1] = FieldPrefix(writer_name, fi) \o @]

\* `for fi in fields`: the lines of one column; a field that is not a key of
\* cistrdict raises KeyError, a field that is the empty string IndexError
RECURSIVE ColumnLines(_, _, _, _)
ColumnLines(cistrdict, writer_name, fields, lines) ==
    IF fields = <<>> THEN [error |-> None, lines |-> lines]
    ELSE IF fields[1] = <<>> THEN [error |-> Some("IndexError"), lines |-> lines]
    ELSE IF FieldKey(fields[1]) \notin DOMAIN cistrdict
         THEN [error |-> Some("KeyError"), lines |-> lines]
    ELSE ColumnLines(cistrdict, writer_name, Tail(fields),
                     lines \o FieldLines(cistrdict, writer_name, fields[1]))

\* a zip of the columns: as many rows as the shorter one has
RowCountZip(leftlines, rightlines) ==
    IF Len(leftlines) <= Len(rightlines) THEN Len(leftlines) ELSE Len(rightlines)

\* max(len(leftlines), len(rightlines))
RowCount(leftlines, rightlines) ==
    IF Len(leftlines) >= Len(rightlines) THEN Len(leftlines) ELSE Len(rightlines)

\* leftlines[i] if i < len(leftlines) else ''
CellOf(lines, i) == IF i <= Len(lines) THEN lines[i] ELSE <<>>

\* the table lines
TableLines(writer_name, leftlines, rightlines) ==
    [i \in 1..RowCount(leftlines, rightlines) |->
        StartRow(writer_name) \o CellOf(leftlines, i) \o ColSep(writer_name)
            \o CellOf(rightlines, i) \o EndRow(writer_name)]

\* make_citable(cistrdict, writer_name, leftfields, rightfields): [error, value];
\* the left column is built first
MakeCitable(cistrdict, writer_name, leftfields, rightfields) ==
    IF writer_name \notin CitableWriters
    THEN [error |-> Some("ValueError"), value |-> <<>>]
    ELSE LET left  == ColumnLines(cistrdict, writer_name, leftfields, <<>>)
             right == ColumnLines(cistrdict, writer_name, rightfields, <<>>)
         IN  IF left.error # None THEN [error |-> left.error, value |-> <<>>]
             ELSE IF right.error # None THEN [error |-> right.error, value |-> <<>>]
             ELSE [error |-> None,
                   value |-> Join(TableLines(writer_name, left.lines, right.lines), <<NL>>)]

(***************************************************************************)
(* The formatter's runs: one call.                                         *)
(***************************************************************************)
Pdf == <<"p", "d", "f">>

FieldCatalog ==
    { <<"[", "n", "a", "m", "e", "]">>,
      <<"p", "h", "o", "n", "e">>,
      <<"e", "m", "a", "i", "l">> }

KeyName == <<"n", "a", "m", "e">>

KeyPhone == <<"p", "h", "o", "n", "e">>

KeyEmail == <<"e", "m", "a", "i", "l">>

\* field values: one line, two lines
ValueCatalog == { <<"J">>, <<"5", NL, "6">> }

\* the contact dicts: every key there, or the email missing
DictCatalog ==
    [{KeyName, KeyPhone, KeyEmail} -> ValueCatalog]
        \cup [{KeyName, KeyPhone} -> ValueCatalog]

McInit ==
    /\ mcDict \in DictCatalog
    /\ mcWriter \in {Html, Latex, Pdf}
    /\ mcLeft \in SeqsUpTo(FieldCatalog, MaxFields)
    /\ mcRight \in SeqsUpTo(FieldCatalog, MaxFields)
    /\ mcPc = "start"
    /\ mcResult = NoResult

\* make_citable(cistrdict, writer_name, leftfields, rightfields)
McCall ==
    /\ mcPc = "start"
    /\ mcResult' = MakeCitable(mcDict, mcWriter, mcLeft, mcRight)
    /\ mcPc' = IF mcResult'.error # None THEN "error" ELSE "done"
    /\ UNCHANGED <<mcDict, mcWriter, mcLeft, mcRight>>
    /\ UNCHANGED <<varsLS, varsCI, varsSS, varsMN>>

NextCitable == McCall

InitCitable == McInit /\ LsIdle /\ CiIdle /\ SsIdle /\ MnIdle

SpecCitable == InitCitable /\ [][NextCitable]_vars

(***************************************************************************)
(* Claims about make_citable.                                              *)
(***************************************************************************)
\* the lines a field gives its column: the label on the first line of a
\* field that is not bracketed
ClaimedLabel(writer_name, fi) ==
    IF writer_name = Html
    THEN <<"<", "i", ">", UpperChar(fi[1])>> \o Tail(fi) \o <<":", "<", "/", "i", ">", "~">>
    ELSE <<"\\", "t", "e", "x", "t", "i", "t", "{", UpperChar(fi[1])>> \o Tail(fi)
             \o <<":", "}", "~">>

ClaimedFieldLines(fi) ==
    LET bare  == fi[1] = "[" /\ fi[Len(fi)] = "]"
        value == Split(mcDict[IF bare THEN SubSeq(fi, 2, Len(fi) - 1) ELSE fi], NL)
    IN  [j \in 1..Len(value) |->
            IF j = 1 /\ ~bare THEN ClaimedLabel(mcWriter, fi) \o value[j] ELSE value[j]]

\* the concatenation of the fields' lines, in field order
RECURSIVE ClaimedColumn(_)
ClaimedColumn(fields) ==
    IF fields = <<>> THEN <<>>
    ELSE ClaimedColumn(SubSeq(fields, 1, Len(fields) - 1))
             \o ClaimedFieldLines(fields[Len(fields)])

\* the table of rows open + left + sep + right + close
ClaimedTable(open, sep, close) ==
    LET left  == ClaimedColumn(mcLeft)
        right == ClaimedColumn(mcRight)
        n     == IF Len(left) >= Len(right) THEN Len(left) ELSE Len(right)
    IN  Join([i \in 1..n |->
                 open \o (IF i <= Len(left) THEN left[i] ELSE <<>>) \o sep
                      \o (IF i <= Len(right) THEN right[i] ELSE <<>>) \o close],
             <<NL>>)

HtmlTable ==
    ClaimedTable(<<"<", "t", "r", ">", "<", "t", "d", ">">>,
                 <<"<", "/", "t", "d", ">", "<", "t", "d", ">">>,
                 <<"<", "/", "t", "d", ">", "<", "/", "t", "r", ">">>)

\* C7 as stated: max(#left, #right) rows pairing the columns line by line,
\* an empty cell where a column has run out, each row
\* '<tr><td>left</td><td>right</td></tr>' for HTML and 'left & right \\' for
\* LaTeX.
C7_TableAsStated ==
    mcPc = "done" =>
        mcResult.value = IF mcWriter = Html THEN HtmlTable
                         ELSE ClaimedTable(<<>>, <<" ", "&", " ">>, <<" ", "\\", "\\">>)

\* C7 amended: the same, the LaTeX row being left + '&' + right + '\\' with
\* no space around the '&' nor before the '\\'.
C7_Table ==
    mcPc = "done" =>
        mcResult.value = IF mcWriter = Html THEN HtmlTable
                         ELSE ClaimedTable(<<>>, <<"&">>, <<"\\", "\\">>)

\* a LaTeX table whose left column, a bracketed field, runs out before the
\* right one, which holds a labelled field of two lines
C7_Witness ==
    /\ mcPc = "done"
    /\ mcWriter = Latex
    /\ mcLeft = << <<"[", "n", "a", "m", "e", "]">> >>
    /\ mcRight = <<KeyPhone, KeyEmail>>
    /\ mcDict[KeyName] = <<"J">>
    /\ mcDict[KeyPhone] = <<"5", NL, "6">>
    /\ Len(Split(mcResult.value, NL)) = 3

(***************************************************************************)
(* apply_str_special_settings: the patches of the rendered string.         *)
(***************************************************************************)
Nobullets == <<"n", "o", "b", "u", "l", "l", "e", "t", "s">>

Preitemize == <<"p", "r", "e", "i", "t", "e", "m", "i", "z", "e">>

Postsection == <<"p", "o", "s", "t", "s", "e", "c", "t", "i", "o", "n">>

Nofootnotespace == <<"n", "o", "f", "o", "o", "t", "n", "o", "t", "e", "s", "p", "a", "c", "e">>

Onlydiv == <<"o", "n", "l", "y", "d", "i", "v">>

\* SPECIAL_SETTINGS.get(writer_name, ''): the special keys of a writer
SPECIAL_SETTINGS(writer_name) ==
    IF writer_name = Latex THEN <<Nobullets, Preitemize, Postsection, Nofootnotespace>>
    ELSE IF writer_name = Html THEN <<Onlydiv>>
    ELSE <<>>

\* the key of a special setting in the special-settings dict:
\* writer_name + '_' + si
SpecialKey(writer_name, si) == writer_name \o <<"_">> \o si

Item == <<"\\", "i", "t", "e", "m", " ">>

ItemNoBullet == <<"\\", "i", "t", "e", "m", "[", "]", " ">>

BeginItemize == <<"\\", "b", "e", "g", "i", "n", "{", "i", "t", "e", "m", "i", "z", "e", "}">>

FootnoteMark == <<"\\", "D", "U", "f", "o", "o", "t", "n", "o", "t", "e", "m", "a", "r", "k">>

DocOpen ==
    <<"<", "d", "i", "v", " ", "c", "l", "a", "s", "s", "=", "\"", "d", "o", "c", "u", "m",
      "e", "n", "t", "\"", ">">>

DivOpen == <<"<", "d", "i", "v">>

DivClose == <<"<", "/", "d", "i", "v">>

\* one iteration of `for l in writtenstr.split('\n')`
OnlyDivStep(st, l) ==
    IF st.divcnt > 0
    THEN [lnstowrite |-> Append(st.lnstowrite, l),
          divcnt     |-> st.divcnt + Count(l, DivOpen) - Count(l, DivClose)]
    ELSE IF Contains(l, DocOpen)
         THEN [st EXCEPT !.divcnt = @ + 1]
    ELSE st

RECURSIVE OnlyDivLoop(_, _)
OnlyDivLoop(st, lines) ==
    IF lines = <<>> THEN st
    ELSE OnlyDivLoop(OnlyDivStep(st, lines[1]), Tail(lines))

\* the html_onlydiv branch: the lines written, joined again
OnlyDiv(writtenstr) ==
    Join(OnlyDivLoop([lnstowrite |-> <<>>, divcnt |-> 0], Split(writtenstr, NL)).lnstowrite,
         <<NL>>)

\* apply_str_special_settings(writtenstr, specialsettings): [error, value]; no
\* branch raises
ApplyStrSpecialSettings(writtenstr, specialsettings) ==
    LET has(si) == si \in DOMAIN specialsettings
        s1 == IF has(SpecialKey(Latex, Nobullets))
              THEN Replace(writtenstr, Item, ItemNoBullet)
              ELSE writtenstr
        s2 == IF has(SpecialKey(Latex, Preitemize))
              THEN Replace(s1, BeginItemize,
                           specialsettings[SpecialKey(Latex, Preitemize)] \o <<NL>>
                               \o BeginItemize)
              ELSE s1
        s3 == IF has(SpecialKey(Latex, Nofootnotespace))
              THEN Replace(s2, <<" ">> \o FootnoteMark, FootnoteMark)
              ELSE s2
        s4 == IF has(SpecialKey(Html, Onlydiv)) THEN OnlyDiv(s3) ELSE s3
    IN  [error |-> None, value |-> s4]

(***************************************************************************)
(* The string pass's runs: one call on a rendered text, with the special   *)
(* settings main can have extracted for the writer.                        *)
(***************************************************************************)
HtmlLines ==
    { DocOpen,
      <<"A">>,
      <<"<", "d", "i", "v", ">">>,
      <<"<", "/", "d", "i", "v", ">">>,
      <<"<", "d", "i", "v", ">", "A", "<", "/", "d", "i", "v", ">">> }

LatexLines ==
    { <<"A">>,
      <<"\\", "i", "t", "e", "m", " ", "x">>,
      BeginItemize,
      <<"a", " ">> \o FootnoteMark }

\* the rendered texts of a writer
Renderings(writer_name, n) ==
    {Join(ls, <<NL>>) : ls \in SeqsUpTo(IF writer_name = Html THEN HtmlLines ELSE LatexLines, n)}

\* the values a special key can have in the settings file
SpecialValues == { <<>>, <<"\\", "s", "m", "a", "l", "l">> }

\* the special-settings dicts main can build for a writer
SpecialDicts(writer_name) ==
    LET keys == {SpecialKey(writer_name, SPECIAL_SETTINGS(writer_name)[i]) :
                    i \in 1..Len(SPECIAL_SETTINGS(writer_name))}
    IN  UNION {[ks -> SpecialValues] : ks \in SUBSET keys}

SsInit ==
    /\ ssWriter \in {Html, Latex}
    /\ ssWritten \in Renderings(ssWriter, MaxRendered)
    /\ ssSettings \in {d \in SpecialDicts(ssWriter) :
                          \A k \in DOMAIN d :
                              d[k] # <<>> => k = SpecialKey(Latex, Preitemize)}
    /\ ssPc = "start"
    /\ ssResult = NoResult

\* apply_str_special_settings(writtenstr, specialsettings)
SsCall ==
    /\ ssPc = "start"
    /\ ssResult' = ApplyStrSpecialSettings(ssWritten, ssSettings)
    /\ ssPc' = IF ssResult'.error # None THEN "error" ELSE "done"
    /\ UNCHANGED <<ssWriter, ssWritten, ssSettings>>
    /\ UNCHANGED <<varsLS, varsCI, varsMC, varsMN>>

NextStr == SsCall

InitStr == SsInit /\ LsIdle /\ CiIdle /\ McIdle /\ MnIdle

SpecStr == InitStr /\ [][NextStr]_vars

(***************************************************************************)
(* Claims about apply_str_special_settings.                                *)
(***************************************************************************)
RenderedLines == Split(ssWritten, NL)

\* the lines that hold the body-open marker
OpenLines == {i \in 1..Len(RenderedLines) : Contains(RenderedLines[i], DocOpen)}

BodyOpen == CHOOSE i \in OpenLines : \A j \in OpenLines : i <= j

\* the nesting depth after line j, counted from the body-open line on
RECURSIVE DepthAfter(_)
DepthAfter(j) ==
    IF j <= BodyOpen THEN 1
    ELSE DepthAfter(j - 1) + Count(RenderedLines[j], DivOpen)
             - Count(RenderedLines[j], DivClose)

\* the lines that bring the depth back to zero
CloseLines == {j \in (BodyOpen + 1)..Len(RenderedLines) : DepthAfter(j) <= 0}

BodyClose == CHOOSE j \in CloseLines : \A k \in CloseLines : j <= k

OnlyDivSet == SpecialKey(Html, Onlydiv) \in DOMAIN ssSettings

HasBody == OpenLines # {} /\ CloseLines # {}

\* C2: with html_onlydiv the result is exactly the lines strictly after the
\* body-open line and strictly before the line of its matching close.
C2_OnlyDivBody ==
    (ssPc = "done" /\ OnlyDivSet /\ HasBody)
        => ssResult.value = Join(SubSeq(RenderedLines, BodyOpen + 1, BodyClose - 1), <<NL>>)

\* what the code keeps: the lines after the body-open line up to and with
\* the line of the matching close (when no later line opens a body again)
C2_OnlyDivBodyAndClose ==
    (ssPc = "done" /\ OnlyDivSet /\ HasBody /\ \A i \in OpenLines : i <= BodyClose)
        => ssResult.value = Join(SubSeq(RenderedLines, BodyOpen + 1, BodyClose), <<NL>>)

\* C4: body extraction on a rendered text that lacks the body-open marker or
\* its matching close ends in an error and returns no string.
C4_MissingDelimiterFails ==
    (ssPc \in {"done", "error"} /\ OnlyDivSet /\ ~HasBody) => ssPc = "error"

(***************************************************************************)
(* main: the orchestrator.  The settings map is the ordered map of         *)
(* load_settings, a sequence of <<key, value>> pairs.                      *)
(***************************************************************************)
Contactinfotemplate ==
    <<"c", "o", "n", "t", "a", "c", "t", "i", "n", "f", "o", "t", "e", "m", "p", "l", "a",
      "t", "e">>

ContactinfotemplateEsc == Contactinfotemplate \o <<"\\">>

Excludesections ==
    <<"e", "x", "c", "l", "u", "d", "e", "s", "e", "c", "t", "i", "o", "n", "s">>

Citabledata == <<"c", "i", "t", "a", "b", "l", "e", "d", "a", "t", "a">>

\* k in stgs
MapHas(m, k) == \E i \in 1..Len(m) : m[i][1] = k

\* stgs[k]
MapGet(m, k) == m[CHOOSE i \in 1..Len(m) : m[i][1] = k][2]

\* stgs after stgs.pop(k)
MapPop(m, k) == Filter(m, [i \in 1..Len(m) |-> m[i][1] # k])

MapKeys(m) == {m[i][1] : i \in 1..Len(m)}

\* the template of the escaped-brace variant: every brace doubled, then the
\* backslash-brace pairs removed
EscapedTemplate(citempl) ==
    LET doubled == Replace(Replace(citempl, <<"{">>, <<"{", "{">>), <<"}">>, <<"}", "}">>)
    IN  Replace(Replace(doubled, <<"\\", "{">>, <<>>), <<"\\", "}">>, <<>>)

\* lines 267-275: [citempl, stgs]; citempl is None or the template
PickTemplate(stgs) ==
    IF MapHas(stgs, Contactinfotemplate)
    THEN [citempl |-> Some(MapGet(stgs, Contactinfotemplate)),
          stgs    |-> MapPop(stgs, Contactinfotemplate)]
    ELSE IF MapHas(stgs, ContactinfotemplateEsc)
    THEN [citempl |-> Some(EscapedTemplate(MapGet(stgs, ContactinfotemplateEsc))),
          stgs    |-> MapPop(stgs, ContactinfotemplateEsc)]
    ELSE [citempl |-> None, stgs |-> stgs]

\* extract_texts(node): the text nodes under the section that no title holds
ExtractTexts(node) ==
    LET texts == [i \in 1..Len(node.children) |-> node.children[i].text]
    IN  Filter(texts, [i \in 1..Len(node.children) |-> node.children[i].tagname # "title"])

\* str.format(**d) on a template of plain field names: [error, value]
RECURSIVE Format(_, _)
Format(t, d) ==
    IF t = <<>> THEN [error |-> None, value |-> <<>>]
    ELSE IF MatchAt(t, <<"{", "{">>, 1) \/ MatchAt(t, <<"}", "}">>, 1)
    THEN LET rest == Format(Tail_from(t, 3), d)
         IN  [rest EXCEPT !.value = <<t[1]>> \o @]
    ELSE IF t[1] = "}" THEN [error |-> Some("ValueError"), value |-> <<>>]
    ELSE IF t[1] = "{"
    THEN LET closes == {j \in 2..Len(t) : t[j] = "}"}
             close  == CHOOSE j \in closes : \A k \in closes : j <= k
             name   == SubSeq(t, 2, close - 1)
             rest   == Format(Tail_from(t, close + 1), d)
         IN  IF closes = {} THEN [error |-> Some("ValueError"), value |-> <<>>]
             ELSE IF name = <<>> THEN [error |-> Some("IndexError"), value |-> <<>>]
             ELSE IF name \notin DOMAIN d THEN [error |-> Some("KeyError"), value |-> <<>>]
             ELSE [rest EXCEPT !.value = d[name] \o @]
    ELSE LET rest == Format(Tail(t), d)
         IN  [rest EXCEPT !.value = <<t[1]>> \o @]

\* a raw node at the top of the tree
RawNode(text, format) ==
    [id |-> 0, tagname |-> "raw", names |-> <<>>, format |-> format,
     children |-> <<[tagname |-> "#text", text |-> text]>>]

\* lines 276-282, citempl given: [error, doctree].  The contact sections
\* leave the tree before anything that can fail is formatted.
SubstituteContact(doctree, citempl, writer_name) ==
    LET ex      == ExtractContactInfo(doctree)
        notext  == \E k \in DOMAIN ex.cidict : ExtractTexts(ex.cidict[k]) = <<>>
        strdict == [k \in DOMAIN ex.cidict |->
                       LET texts == ExtractTexts(ex.cidict[k]) IN texts[Len(texts)]]
        citable == IF Contains(citempl, <<"{">> \o Citabledata \o <<"}">>)
                   THEN MakeCitable(strdict, writer_name,
                                    DEFAULT_CITABLE_LEFT, DEFAULT_CITABLE_RIGHT)
                   ELSE [error |-> None, value |-> <<>>]
        fulldict == IF Contains(citempl, <<"{">> \o Citabledata \o <<"}">>)
                    THEN DictSet(strdict, Citabledata, citable.value)
                    ELSE strdict
        cistr   == Format(citempl, fulldict)
    IN  IF ex.error # None THEN [error |-> ex.error, doctree |-> ex.doctree]
        ELSE IF notext THEN [error |-> Some("IndexError"), doctree |-> ex.doctree]
        ELSE IF citable.error # None THEN [error |-> citable.error, doctree |-> ex.doctree]
        ELSE IF cistr.error # None THEN [error |-> cistr.error, doctree |-> ex.doctree]
        ELSE [error |-> None,
              doctree |-> <<RawNode(cistr.value, writer_name)>> \o ex.doctree]

\* lines 284-287: [specialsettings, stgs]
RECURSIVE PopSpecial(_, _, _)
PopSpecial(acc, writer_name, sis) ==
    IF sis = <<>> THEN acc
    ELSE PopSpecial(IF MapHas(acc.stgs, sis[1])
                    THEN [specialsettings |->
                              DictSet(acc.specialsettings, SpecialKey(writer_name, sis[1]),
                                      MapGet(acc.stgs, sis[1])),
                          stgs |-> MapPop(acc.stgs, sis[1])]
                    ELSE acc,
                    writer_name, Tail(sis))

ExtractSpecialSettings(stgs, writer_name) ==
    PopSpecial([specialsettings |-> <<>>, stgs |-> stgs], writer_name,
               SPECIAL_SETTINGS(writer_name))

\* [secs.strip() for secs in value.split(',')]
SecsToExclude(value) ==
    LET parts == Split(value, ",") IN {Strip(parts[i]) : i \in 1..Len(parts)}

\* str(node[0][0]): the text of the first child, the title
TitleText(node) == node.children[1].text

\* lines 290-297: [error, doctree, stgs]; a section with no child raises
\* IndexError
ExcludeSections(doctree, stgs) ==
    IF ~MapHas(stgs, Excludesections) THEN [error |-> None, doctree |-> doctree, stgs |-> stgs]
    ELSE LET secs   == SecsToExclude(MapGet(stgs, Excludesections))
             popped == MapPop(stgs, Excludesections)
             torem  == Filter(doctree,
                              [i \in 1..Len(doctree) |->
                                  /\ doctree[i].tagname = "section"
                                  /\ doctree[i].children # <<>>
                                  /\ TitleText(doctree[i]) \in secs])
             rem    == RemoveAll(doctree, torem)
         IN  IF \E i \in 1..Len(doctree) :
                    doctree[i].tagname = "section" /\ doctree[i].children = <<>>
             THEN [error |-> Some("IndexError"), doctree |-> doctree, stgs |-> popped]
             ELSE [error |-> rem.error, doctree |-> rem.doctree, stgs |-> popped]

\* node.insert(i + 1, Raw(...)) after the first title of a section
InsertAfterTitle(node, txt) ==
    LET titles == {i \in 1..Len(node.children) : node.children[i].tagname = "title"}
        i      == CHOOSE k \in titles : \A j \in titles : k <= j
    IN  IF titles = {} THEN node
        ELSE [node EXCEPT !.children =
                 SubSeq(@, 1, i) \o <<[tagname |-> "raw", text |-> txt]>>
                     \o SubSeq(@, i + 1, Len(@))]

\* apply_doctree_special_settings(doctree, specialsettings)
ApplyDoctreeSpecialSettings(doctree, specialsettings) ==
    IF SpecialKey(Latex, Postsection) \in DOMAIN specialsettings
    THEN [i \in 1..Len(doctree) |->
             IF doctree[i].tagname = "section"
             THEN InsertAfterTitle(doctree[i], specialsettings[SpecialKey(Latex, Postsection)])
             ELSE doctree[i]]
    ELSE doctree

(***************************************************************************)
(* main's runs.  What main does not compute comes from its environment:    *)
(* whether a file exists, the tree the parser returns, the text of the     *)
(* settings file, the string the renderer returns.                         *)
(***************************************************************************)
Section(id, name, title, text) ==
    [id |-> id, tagname |-> "section", names |-> <<name>>, format |-> <<>>,
     children |-> <<[tagname |-> "title", text |-> title],
                    [tagname |-> "paragraph", text |-> text]>>]

SkillsSection(id) ==
    Section(id, <<"s", "k", "i", "l", "l", "s">>, <<"S", "k", "i", "l", "l", "s">>, <<"x">>)

\* the trees the parser returns: a name and a phone, no contact section,
\* every field of the default contact block
ParsedTrees ==
    { <<Section(1, KeyName, <<"N", "a", "m", "e">>, <<"J", "a", "n", "e">>),
        Section(2, KeyPhone, <<"P", "h", "o", "n", "e">>, <<"5">>),
        SkillsSection(3)>>,
      <<SkillsSection(1)>>,
      <<Section(1, <<"a", "d", "d", "r", "e", "s", "s">>,
                <<"A", "d", "d", "r", "e", "s", "s">>, <<"1", " ", "R", "o", "a", "d">>),
        Section(2, KeyPhone, <<"P", "h", "o", "n", "e">>, <<"5">>),
        Section(3, <<"f", "a", "x">>, <<"F", "a", "x">>, <<"6">>),
        Section(4, KeyEmail, <<"E", "m", "a", "i", "l">>, <<"j", "@", "x">>),
        SkillsSection(5)>> }

Stylesheet == <<"s", "t", "y", "l", "e", "s", "h", "e", "e", "t">>

Header(name) == <<"[">> \o name \o <<"]">>

Small == <<"\\", "s", "m", "a", "l", "l">>

\* the blocks a settings file is made of, in the order they come in
SettingsBlocks ==
    << <<Header(Stylesheet), <<"a", ".", "c", "s", "s">>, <<>>>>,
       <<Header(Contactinfotemplate), <<"{", "n", "a", "m", "e", "}">>, <<>>>>,
       <<Header(Contactinfotemplate), <<"{">> \o Citabledata \o <<"}">>, <<>>>>,
       <<Header(ContactinfotemplateEsc),
         <<"\\", "{", "n", "a", "m", "e", "\\", "}", "{", "}">>, <<>>>>,
       <<Header(Excludesections), <<"S", "k", "i", "l", "l", "s", ",", " ", "x">>, <<>>>>,
       <<Header(Nobullets)>>,
       <<Header(Preitemize), Small>>,
       <<Header(Postsection), Small>>,
       <<Header(Nofootnotespace)>>,
       <<Header(Onlydiv)>>,
       <<Header(<<"x">>) \o <<"y">>>> >>

\* the blocks of the chosen places, one after the other
RECURSIVE Concat(_)
Concat(seqs) == IF seqs = <<>> THEN <<>> ELSE seqs[1] \o Concat(Tail(seqs))

FileOf(chosen) ==
    Concat(Filter(SettingsBlocks, [i \in 1..Len(SettingsBlocks) |-> i \in chosen]))

\* the settings files: any blocks but the malformed one, or a file with a
\* malformed header
SettingsFiles ==
    {FileOf(chosen) : chosen \in SUBSET (1..(Len(SettingsBlocks) - 1))}
        \cup {FileOf({1, Len(SettingsBlocks)})}

\* the strings the renderer returns
MainRenderings(writer_name) ==
    IF writer_name = Html
    THEN { Join(<<<<"A">>, DocOpen, <<"A">>, <<"<", "/", "d", "i", "v", ">">>, <<"A">>>>, <<NL>>),
           <<"A">> }
    ELSE { Join(<<BeginItemize, <<"\\", "i", "t", "e", "m", " ", "x">>>>, <<NL>>) }

CvSettings == <<".", "c", "v", "s", "e", "t", "t", "i", "n", "g", "s">>

MnInit ==
    /\ mnContent \in {"path", "stream", "tree"}
    /\ mnWriterArg \in {"name", "object"}
    /\ mnWriterName \in {Html, Latex}
    /\ mnSettingsfile \in {None, Some(<<"m", "y">> \o CvSettings)}
    /\ mnPc = "Parse"
    /\ mnError = None
    /\ mnDoctree = <<>>
    /\ mnSettingsExists = "unknown"
    /\ mnLoaded = None
    /\ mnStgs = None
    /\ mnSpecial = <<>>
    /\ mnOverrides = None
    /\ mnOutstr = <<>>
    /\ mnFout = None
    /\ mnReturned = None

MnOthers == UNCHANGED <<varsLS, varsCI, varsMC, varsSS>>

\* the run ends with the exception exc, raised in the step it was in
Raise(exc) ==
    /\ mnError' = Some(<<mnPc, exc>>)
    /\ mnPc' = "error"

\* lines 242-251.  A tree has no `read`, so after `doctree = content` the
\* else branch opens it as a path: TypeError.  For a stream, `f` is a local
\* of main that is not yet bound: UnboundLocalError.
MnParse ==
    /\ mnPc = "Parse"
    /\ \/ /\ mnContent = "tree"
          /\ \E tree \in ParsedTrees : mnDoctree' = tree
          /\ Raise("TypeError")
       \/ /\ mnContent = "stream"
          /\ Raise("UnboundLocalError")
          /\ UNCHANGED mnDoctree
       \/ /\ mnContent = "path"
          /\ \E exists \in BOOLEAN :
                IF exists
                THEN /\ \E tree \in ParsedTrees : mnDoctree' = tree
                     /\ mnPc' = "LoadSettings"
                     /\ UNCHANGED mnError
                ELSE /\ Raise("IOError")
                     /\ UNCHANGED mnDoctree
    /\ UNCHANGED <<mnContent, mnWriterArg, mnWriterName, mnSettingsfile, mnSettingsExists,
                   mnLoaded, mnStgs, mnSpecial, mnOverrides, mnOutstr, mnFout, mnReturned>>
    /\ MnOthers

\* lines 254-264: both branches resolve the file name and load it the same way
MnLoadSettings ==
    /\ mnPc = "LoadSettings"
    /\ mnSettingsfile' = IF mnSettingsfile = None
                         THEN Some(mnWriterName \o CvSettings)
                         ELSE mnSettingsfile
    /\ \E exists \in BOOLEAN :
          IF exists
          THEN \E file \in SettingsFiles :
                  LET r == LoadSettings(file, None)
                  IN  /\ mnSettingsExists' = "yes"
                      /\ IF r.error # None
                         THEN /\ Raise("ValueError")
                              /\ UNCHANGED <<mnStgs, mnLoaded>>
                         ELSE /\ mnStgs' = Some(r.value)
                              /\ mnLoaded' = Some(r.value)
                              /\ mnPc' = "SubstituteContact"
                              /\ UNCHANGED mnError
          ELSE /\ mnSettingsExists' = "no"
               /\ mnStgs' = None
               /\ mnPc' = "SubstituteContact"
               /\ UNCHANGED <<mnError, mnLoaded>>
    /\ UNCHANGED <<mnContent, mnWriterArg, mnWriterName, mnDoctree, mnSpecial, mnOverrides,
                   mnOutstr, mnFout, mnReturned>>
    /\ MnOthers

\* lines 267-282; `'contactinfotemplate' in stgs` raises TypeError for None
MnSubstituteContact ==
    /\ mnPc = "SubstituteContact"
    /\ IF mnStgs = None
       THEN /\ Raise("TypeError")
            /\ UNCHANGED <<mnStgs, mnDoctree>>
       ELSE LET picked == PickTemplate(mnStgs[1])
                sub    == SubstituteContact(mnDoctree, picked.citempl[1], mnWriterName)
            IN  /\ mnStgs' = Some(picked.stgs)
                /\ IF picked.citempl = None
                   THEN /\ mnPc' = "ExtractSpecialSettings"
                        /\ UNCHANGED <<mnError, mnDoctree>>
                   ELSE /\ mnDoctree' = sub.doctree
                        /\ IF sub.error # None
                           THEN Raise(sub.error[1])
                           ELSE /\ mnPc' = "ExtractSpecialSettings"
                                /\ UNCHANGED mnError
    /\ UNCHANGED <<mnContent, mnWriterArg, mnWriterName, mnSettingsfile, mnSettingsExists,
                   mnLoaded, mnSpecial, mnOverrides, mnOutstr, mnFout, mnReturned>>
    /\ MnOthers

\* lines 284-287
MnExtractSpecialSettings ==
    /\ mnPc = "ExtractSpecialSettings"
    /\ LET r == ExtractSpecialSettings(mnStgs[1], mnWriterName)
       IN  /\ mnSpecial' = r.specialsettings
           /\ mnStgs' = Some(r.stgs)
    /\ mnPc' = "ExcludeSections"
    /\ UNCHANGED <<mnContent, mnWriterArg, mnWriterName, mnSettingsfile, mnSettingsExists,
                   mnLoaded, mnError, mnDoctree, mnOverrides, mnOutstr, mnFout, mnReturned>>
    /\ MnOthers

\* lines 290-297
MnExcludeSections ==
    /\ mnPc = "ExcludeSections"
    /\ LET r == ExcludeSections(mnDoctree, mnStgs[1])
       IN  /\ mnStgs' = Some(r.stgs)
           /\ mnDoctree' = r.doctree
           /\ IF r.error # None
              THEN Raise(r.error[1])
              ELSE /\ mnPc' = "Render"
                   /\ UNCHANGED mnError
    /\ UNCHANGED <<mnContent, mnWriterArg, mnWriterName, mnSettingsfile, mnSettingsExists,
                   mnLoaded, mnSpecial, mnOverrides, mnOutstr, mnFout, mnReturned>>
    /\ MnOthers

\* lines 301-302: the tree pass, then the renderer gets the tree and what is
\* left of stgs as its settings overrides
MnRender ==
    /\ mnPc = "Render"
    /\ mnDoctree' = ApplyDoctreeSpecialSettings(mnDoctree, mnSpecial)
    /\ mnOverrides' = mnStgs
    /\ \E outstr \in MainRenderings(mnWriterName) : mnOutstr' = outstr
    /\ mnPc' = "PostProcessString"
    /\ UNCHANGED <<mnContent, mnWriterArg, mnWriterName, mnSettingsfile, mnSettingsExists,
                   mnLoaded, mnError, mnStgs, mnSpecial, mnFout, mnReturned>>
    /\ MnOthers

\* line 303
MnPostProcessString ==
    /\ mnPc = "PostProcessString"
    /\ mnOutstr' = ApplyStrSpecialSettings(mnOutstr, mnSpecial).value
    /\ mnPc' = "Emit"
    /\ UNCHANGED <<mnContent, mnWriterArg, mnWriterName, mnSettingsfile, mnSettingsExists,
                   mnLoaded, mnError, mnDoctree, mnStgs, mnSpecial, mnOverrides, mnFout,
                   mnReturned>>
    /\ MnOthers

\* lines 305-312: fout is None, a stream or a path; the string written, if
\* any, and the string returned
MnEmit ==
    /\ mnPc = "Emit"
    /\ \E fout \in {"None", "stream", "path"} :
          mnFout' = IF fout = "None" THEN None ELSE Some(<<fout, mnOutstr>>)
    /\ mnReturned' = Some(mnOutstr)
    /\ mnPc' = "returned"
    /\ UNCHANGED <<mnContent, mnWriterArg, mnWriterName, mnSettingsfile, mnSettingsExists,
                   mnLoaded, mnError, mnDoctree, mnStgs, mnSpecial, mnOverrides, mnOutstr>>
    /\ MnOthers

NextMain ==
    \/ MnParse
    \/ MnLoadSettings
    \/ MnSubstituteContact
    \/ MnExtractSpecialSettings
    \/ MnExcludeSections
    \/ MnRender
    \/ MnPostProcessString
    \/ MnEmit

InitMain == MnInit /\ LsIdle /\ CiIdle /\ McIdle /\ SsIdle

SpecMain == InitMain /\ [][NextMain]_vars

(***************************************************************************)
(* Claims about main.                                                      *)
(***************************************************************************)
\* C3: a settings file that does not exist never puts the run into an error
\* state: the run goes on, with an empty settings map, to the final string.
C3_MissingSettingsTolerated ==
    mnSettingsExists = "no" => mnPc # "error"

\* C5: the Parse step raises nothing for a pre-parsed tree, for a readable
\* stream, or for a path (of a file that is there).
C5_ParseAcceptsEveryKind ==
    (mnError # None /\ mnError[1][1] = "Parse")
        => (mnContent = "path" /\ mnError[1][2] = "IOError")

\* the keys this core consumes for a writer
ReservedKeys(writer_name) ==
    {Contactinfotemplate, ContactinfotemplateEsc, Excludesections}
        \cup {SPECIAL_SETTINGS(writer_name)[i] : i \in 1..Len(SPECIAL_SETTINGS(writer_name))}

\* C10: the overrides the renderer gets hold no reserved key, whatever
\* combination of them the settings file held, and hold every other entry of
\* the settings map with its value.
C10_OverridesHoldNoReservedKey ==
    mnOverrides # None =>
        /\ MapKeys(mnOverrides[1]) \cap ReservedKeys(mnWriterName) = {}
        /\ \A i \in 1..Len(mnLoaded[1]) :
              mnLoaded[1][i][1] \notin ReservedKeys(mnWriterName)
                  => /\ MapHas(mnOverrides[1], mnLoaded[1][i][1])
                     /\ MapGet(mnOverrides[1], mnLoaded[1][i][1]) = mnLoaded[1][i][2]

\* the same for the settings files that do not hold both template keys
C10_OverridesOneTemplate ==
    (mnOverrides # None
        /\ ~(MapHas(mnLoaded[1], Contactinfotemplate)
                /\ MapHas(mnLoaded[1], ContactinfotemplateEsc)))
        => /\ MapKeys(mnOverrides[1]) \cap ReservedKeys(mnWriterName) = {}
           /\ \A i \in 1..Len(mnLoaded[1]) :
                 mnLoaded[1][i][1] \notin ReservedKeys(mnWriterName)
                     => /\ MapHas(mnOverrides[1], mnLoaded[1][i][1])
                        /\ MapGet(mnOverrides[1], mnLoaded[1][i][1]) = mnLoaded[1][i][2]

\* a run that returned with a contact block put at the front of the tree
MainReturnedWithContact ==
    /\ mnPc = "returned"
    /\ mnDoctree # <<>>
    /\ mnDoctree[1].tagname = "raw"

====
